---- MODULE Spec2Model ----
(***************************************************************************)
(* Model of ldm/modules/attention.py: the reference attention engine       *)
(* (CrossAttention), the fused-kernel engine                              *)
(* (MemoryEfficientCrossAttention), BasicTransformerBlock and             *)
(* SpatialTransformer.                                                    *)
(*                                                                         *)
(* A tensor is a record: its shape, a scalar standing for its content      *)
(* (linear maps act on it as integer arithmetic), the tensor it was        *)
(* computed from (src), its dtype, and for grid or token tensors the       *)
(* input pixel every position holds (pos).  A Python exception is a value  *)
(* with a non-empty err that every later operation passes on unchanged.    *)
(***************************************************************************)
EXTENDS Integers, Sequences, FiniteSets, TLC

VARIABLES env, ca, caFrame, mea, meaFrame, st, stFrame

vars == <<env, ca, caFrame, mea, meaFrame, st, stFrame>>

\* ------------------------------------------------------------- bounds
MaxBatch == 2
MaxDepth == 2

\* ------------------------------------------------------------ helpers
None == [none |-> TRUE, err |-> ""]

exists(val) == ~val.none

default(val, d) == IF exists(val) THEN val ELSE d

Raise(e) == [none |-> FALSE, err |-> e]

Failed(t) == t.err # ""

Tensor(shape, val, src, dtype, pos) ==
    [none |-> FALSE, err |-> "", shape |-> shape, val |-> val, src |-> src,
     dtype |-> dtype, pos |-> pos]

Max(a, b) == IF a >= b THEN a ELSE b

Promote(d1, d2) == IF d1 = "fp32" \/ d2 = "fp32" THEN "fp32" ELSE "fp16"

\* Two shapes broadcast when they are as long and agree, or hold 1, in each place.
Broadcastable(s1, s2) ==
    /\ Len(s1) = Len(s2)
    /\ \A i \in 1..Len(s1) : s1[i] = s2[i] \/ s1[i] = 1 \/ s2[i] = 1

BroadcastShape(s1, s2) == [i \in 1..Len(s1) |-> Max(s1[i], s2[i])]

\* nn.Linear: a weight, a bias (0 when bias=False), and the widths it maps between.
Linear(in_features, out_features, weight, bias) ==
    [in_features |-> in_features, out_features |-> out_features,
     weight |-> weight, bias |-> bias]

LinearApply(m, t) ==
    IF Failed(t) THEN t
    ELSE IF t.shape[Len(t.shape)] # m.in_features THEN Raise("RuntimeError")
    ELSE [t EXCEPT !.shape = [t.shape EXCEPT ![Len(t.shape)] = m.out_features],
                   !.val = t.val * m.weight + m.bias]

\* rearrange(t, 'b n (h d) -> (b h) n d', h=h)
SplitHeads(t, h) ==
    IF Failed(t) THEN t
    ELSE IF t.shape[3] % h # 0 THEN Raise("EinopsError")
    ELSE [t EXCEPT !.shape = <<t.shape[1] * h, t.shape[2], t.shape[3] \div h>>]

\* rearrange(t, '(b h) n d -> b n (h d)', h=h)
MergeHeads(t, h) ==
    IF Failed(t) THEN t
    ELSE IF t.shape[1] % h # 0 THEN Raise("EinopsError")
    ELSE [t EXCEPT !.shape = <<t.shape[1] \div h, t.shape[2], t.shape[3] * h>>]

\* torch.cat([t]*b): b copies along the first axis.
Cat(t, b) ==
    IF Failed(t) THEN t
    ELSE [t EXCEPT !.shape = [t.shape EXCEPT ![1] = t.shape[1] * b]]

\* t.float()
Float(t) == IF Failed(t) THEN t ELSE [t EXCEPT !.dtype = "fp32"]

\* q_in * q_mix + q_ * (1. - q_mix), with the roles of the two exchanged
BlendQSwapped(q_in, q_, gamma2) ==
    IF Failed(q_in) THEN q_in
    ELSE IF Failed(q_) THEN q_
    ELSE IF ~Broadcastable(q_in.shape, q_.shape) THEN Raise("RuntimeError")
    ELSE [q_ EXCEPT !.shape = BroadcastShape(q_in.shape, q_.shape),
                    !.val = (q_.val * gamma2 + q_in.val * (2 - gamma2)) \div 2,
                    !.src = "blend",
                    !.dtype = Promote(q_in.dtype, q_.dtype)]

\* q_in * q_mix + q_ * (1. - q_mix); q_mix is held in halves (gamma2 = 2*gamma)
\* and tensor contents are even, so the division is exact.
BlendQ(q_in, q_, gamma2) ==
    IF Failed(q_in) THEN q_in
    ELSE IF Failed(q_) THEN q_
    ELSE IF ~Broadcastable(q_in.shape, q_.shape) THEN Raise("RuntimeError")
    ELSE [q_ EXCEPT !.shape = BroadcastShape(q_in.shape, q_.shape),
                    !.val = (q_in.val * gamma2 + q_.val * (2 - gamma2)) \div 2,
                    !.src = "blend",
                    !.dtype = Promote(q_in.dtype, q_.dtype)]

\* einsum('b i d, b j d -> b i j', q, k): the raw similarity of q's and k's contents, no
\* factor applied yet.
EinsumQK(q, k) ==
    IF Failed(q) THEN q
    ELSE IF Failed(k) THEN k
    ELSE IF ~Broadcastable(<<q.shape[1], q.shape[3]>>, <<k.shape[1], k.shape[3]>>)
         THEN Raise("RuntimeError")
    ELSE [none |-> FALSE, err |-> "",
          shape |-> <<Max(q.shape[1], k.shape[1]), q.shape[2], k.shape[2]>>,
          qk |-> <<q.val, k.val>>, muls |-> <<>>, fill |-> None,
          dtype |-> Promote(q.dtype, k.dtype), pos |-> q.pos]

\* sim *= factor (in place): the factors are kept in the order they are applied.
MulSim(sim, name, v) ==
    IF Failed(sim) THEN sim
    ELSE [sim EXCEPT !.muls = Append(sim.muls, [f |-> name, v |-> v])]

\* mask = repeat(mask, 'b j -> (b h) () j', h=h); sim.masked_fill_(~mask, max_neg_value)
MaskShape(mask, h) == <<mask.shape[1] * h, 1, mask.shape[2]>>

MaskedFill(sim, mask, h) ==
    IF Failed(sim) THEN sim
    ELSE IF ~(/\ Broadcastable(MaskShape(mask, h), sim.shape)
              /\ BroadcastShape(MaskShape(mask, h), sim.shape) = sim.shape)
    THEN Raise("RuntimeError")
    ELSE [sim EXCEPT !.fill = [none |-> FALSE, keep |-> mask.keep,
                               value |-> <<"-finfo.max", sim.dtype>>]]

\* sim.softmax(dim=-1): kept as a term over the similarity it was taken of.
Softmax(sim) ==
    IF Failed(sim) THEN sim
    ELSE [none |-> FALSE, err |-> "", shape |-> sim.shape,
          sim |-> [qk |-> sim.qk, muls |-> sim.muls, fill |-> sim.fill],
          dtype |-> sim.dtype, pos |-> sim.pos]

\* einsum('b i j, b j d -> b i d', attn, v): every row of attn sums to one, so a
\* row's output is a convex combination of v's rows and has v's content.
EinsumAV(attn, v) ==
    IF Failed(attn) THEN attn
    ELSE IF Failed(v) THEN v
    ELSE IF ~Broadcastable(<<attn.shape[1], attn.shape[3]>>, <<v.shape[1], v.shape[2]>>)
         THEN Raise("RuntimeError")
    ELSE Tensor(<<Max(attn.shape[1], v.shape[1]), attn.shape[2], v.shape[3]>>,
                v.val, v.src, Promote(attn.dtype, v.dtype), attn.pos)

\* ----------------------------------------------------- CrossAttention
\* CrossAttention.__init__; the weights stand for the learned parameters, and
\* context_dim 0 for context_dim=None.
DefaultDim(context_dim, query_dim) ==
    IF context_dim = 0 THEN query_dim ELSE context_dim

CrossAttentionInit(query_dim, context_dim, heads, dim_head) ==
    [heads |-> heads, dim_head |-> dim_head,
     to_q |-> Linear(query_dim, dim_head * heads, 2, 0),
     to_k |-> Linear(DefaultDim(context_dim, query_dim), dim_head * heads, 4, 0),
     to_v |-> Linear(DefaultDim(context_dim, query_dim), dim_head * heads, 6, 0),
     to_out |-> Linear(dim_head * heads, query_dim, 2, 2),
     attn |-> None, q |-> None, k |-> None, v |-> None]

\* The arguments of one forward call.
CallArgs(x, context, mask, q_injected, k_injected, v_injected, injection_config) ==
    [x |-> x, context |-> context, mask |-> mask, q_injected |-> q_injected,
     k_injected |-> k_injected, v_injected |-> v_injected,
     injection_config |-> injection_config]

AttnMatrixScale(a) ==
    IF exists(a.injection_config) THEN a.injection_config.T ELSE 1

QMix2(a) ==
    IF exists(a.injection_config) THEN a.injection_config.gamma2 ELSE 0

\* q_ = rearrange(self.to_q(x), 'b n (h d) -> (b h) n d', h=h)
FreshQ(self, a) == SplitHeads(LinearApply(self.to_q, a.x), self.heads)

\* q_in = torch.cat([q_injected]*b)
InjectedQ(a) == Cat(a.q_injected, a.x.shape[1])

ProjectQ(self, a) ==
    IF ~exists(a.q_injected) THEN FreshQ(self, a)
    ELSE BlendQ(InjectedQ(a), FreshQ(self, a), QMix2(a))

ProjectK(self, a) ==
    IF ~exists(a.k_injected)
    THEN SplitHeads(LinearApply(self.to_k, default(a.context, a.x)), self.heads)
    ELSE Cat(a.k_injected, a.x.shape[1])

ProjectV(self, a) ==
    IF ~exists(a.v_injected)
    THEN SplitHeads(LinearApply(self.to_v, default(a.context, a.x)), self.heads)
    ELSE Cat(a.v_injected, a.x.shape[1])

\* if _ATTN_PRECISION == "fp32": q, k = q.float(), k.float()
Upcast(precision, t) == IF precision = "fp32" THEN Float(t) ELSE t

\* the condition with k_injected forgotten
ScalesByTQOnly(a) == exists(a.q_injected)

\* if q_injected is not None or k_injected is not None: sim *= attn_matrix_scale
ScalesByT(a) == exists(a.q_injected) \/ exists(a.k_injected)

\* lines 229-232: sim *= attn_matrix_scale if q or k was injected; sim *= self.scale
Scaled(self, a, raw) ==
    MulSim(IF ScalesByT(a) THEN MulSim(raw, "attn_matrix_scale", AttnMatrixScale(a))
           ELSE raw,
           "scale", self.dim_head)

\* lines 235-239
Masked(self, a, sim) ==
    IF exists(a.mask) THEN MaskedFill(sim, a.mask, self.heads) ELSE sim

Similarity(self, a, q, k) == Masked(self, a, Scaled(self, a, EinsumQK(q, k)))

Output(self, attn, v) ==
    LinearApply(self.to_out, MergeHeads(EinsumAV(attn, v), self.heads))

\* the entry without the reset: the last call's matrix stays
EntryAttnKept(self) == self.attn

\* self.attn = None on entry
EntryAttn(self) == None

\* self.q = q; self.k = k; self.v = v
StoreQKV(self, q, k, v) == [self EXCEPT !.q = q, !.k = k, !.v = v]

\* What forward hands on: the instance, its locals q, k, v, attn, and out, the
\* tensor returned or the exception raised (None while it still runs).
Locals(self, q, k, v, attn, out) ==
    [self |-> self, q |-> q, k |-> k, v |-> v, attn |-> attn, out |-> out]

\* lines 211-213, reached only if none of the three projections raised
EnterWith(self, q, k, v) ==
    IF Failed(q) THEN Locals(self, None, None, None, None, q)
    ELSE IF Failed(k) THEN Locals(self, None, None, None, None, k)
    ELSE IF Failed(v) THEN Locals(self, None, None, None, None, v)
    ELSE Locals(StoreQKV(self, q, k, v), q, k, v, None, None)

\* CrossAttention.forward up to self.q, self.k, self.v being stored: lines 175-213
ForwardEnter(self, a) ==
    EnterWith([self EXCEPT !.attn = EntryAttn(self)],
              ProjectQ(self, a), ProjectK(self, a), ProjectV(self, a))

\* lines 243-247: self.attn = attn, then the output
FinishWith(self, q, k, v, attn) ==
    IF Failed(attn) THEN Locals(self, q, k, v, None, attn)
    ELSE Locals([self EXCEPT !.attn = attn], q, k, v, attn, Output(self, attn, v))

\* lines 222-242: the upcast, the similarity and its softmax
Attend(self, a, q, k) == Softmax(Similarity(self, a, q, k))

\* CrossAttention.forward from the similarity to the return: q and k are the
\* locals after the upcast.
ForwardFinish(self, a, precision, q, k, v) ==
    FinishWith(self, Upcast(precision, q), Upcast(precision, k), v,
               Attend(self, a, Upcast(precision, q), Upcast(precision, k)))

FinishFrom(e, a, precision) ==
    IF Failed(e.out) THEN e
    ELSE ForwardFinish(e.self, a, precision, e.q, e.k, e.v)

\* The whole of CrossAttention.forward, as a sublayer call of a block runs it.
CrossAttentionForward(self, a, precision) ==
    FinishFrom(ForwardEnter(self, a), a, precision)

\* ------------------------------------------- one CrossAttention instance
IdleFrame == [pc |-> "idle", args |-> None, q |-> None, k |-> None, v |-> None,
              attn |-> None, out |-> None]

Batches == 1..MaxBatch

\* x: [b, 2 tokens, query_dim 8]; its content differs from batch size to batch size
XIn(b) == Tensor(<<b, 2, 8>>, 2 * b, "x", "fp16", <<>>)

\* context: [b, 3 tokens, context_dim 8]
ContextIn(b) == Tensor(<<b, 3, 8>>, 8, "context", "fp16", <<>>)

\* mask: [b, 3] booleans, the first key kept
MaskIn(b) == [none |-> FALSE, shape |-> <<b, 3>>, keep |-> {1}]

\* q, k, v of another pass with batch 1, head-split: [heads 2, n tokens, dim_head 4]
InjectedIn(n, val) == Tensor(<<2, n, 4>>, val, "injected", "fp16", <<>>)

InjectionConfigs == {None} \cup [none : {FALSE}, T : {3}, gamma2 : {0, 1, 2}]

InitAttn ==
    /\ env \in [attn_precision : {"fp32", "fp16"}, xformers : {FALSE}]
    /\ ca = CrossAttentionInit(8, 0, 2, 4)
    /\ caFrame = IdleFrame
    /\ mea = None
    /\ meaFrame = None
    /\ st = None
    /\ stFrame = None

\* The frame of a call: where it stands, its arguments and its locals.
Frame(pc, a, r) ==
    [pc |-> pc, args |-> a, q |-> r.q, k |-> r.k, v |-> r.v, attn |-> r.attn,
     out |-> r.out]

Entered(a, e) ==
    /\ ca' = e.self
    /\ caFrame' = Frame(IF Failed(e.out) THEN "failed" ELSE "running", a, e)

\* forward is entered: lines 175-213
CAEnter ==
    /\ caFrame.pc = "idle"
    /\ \E b \in Batches, withContext \in BOOLEAN, withMask \in BOOLEAN,
          q_injected \in {None, InjectedIn(2, 6), InjectedIn(3, 6)},
          k_injected \in {None, InjectedIn(2, 10)},
          v_injected \in {None, InjectedIn(2, 14)},
          injection_config \in InjectionConfigs :
        \E a \in {CallArgs(XIn(b),
                           IF withContext THEN ContextIn(b) ELSE None,
                           IF withMask THEN MaskIn(b) ELSE None,
                           q_injected, k_injected, v_injected, injection_config)} :
            Entered(a, ForwardEnter(ca, a))
    /\ UNCHANGED <<env, mea, meaFrame, st, stFrame>>

Finished(r) ==
    /\ ca' = r.self
    /\ caFrame' = Frame(IF Failed(r.out) THEN "failed" ELSE "returned",
                        caFrame.args, r)

\* forward runs on to its return or its exception: lines 222-247
CAFinish ==
    /\ caFrame.pc = "running"
    /\ Finished(ForwardFinish(ca, caFrame.args, env.attn_precision,
                              caFrame.q, caFrame.k, caFrame.v))
    /\ UNCHANGED <<env, mea, meaFrame, st, stFrame>>

\* the caller has the result or the exception; the instance keeps its state
CALeave ==
    /\ caFrame.pc \in {"returned", "failed"}
    /\ caFrame' = IdleFrame
    /\ UNCHANGED <<env, ca, mea, meaFrame, st, stFrame>>

NextAttn == CAEnter \/ CAFinish \/ CALeave

SpecAttn == InitAttn /\ [][NextAttn]_vars

\* The content and shape of two tensors agree (their dtype may differ: the
\* upcast copies).
SameContent(t, u) ==
    /\ exists(t) /\ exists(u)
    /\ ~Failed(t) /\ ~Failed(u)
    /\ t.shape = u.shape
    /\ t.val = u.val

BlendCase(gamma2) ==
    /\ caFrame.pc \in {"running", "returned"}
    /\ exists(caFrame.args.q_injected)
    /\ exists(caFrame.args.injection_config)
    /\ caFrame.args.injection_config.gamma2 = gamma2

\* C2 as claimed: with q_injected and injection_config given, gamma = 0 makes the
\* Q used and stored the injected Q replicated over the batch, and gamma = 1
\* makes it the fresh projection to_q(x).
C2_AsClaimed ==
    /\ BlendCase(0) =>
          /\ SameContent(ca.q, InjectedQ(caFrame.args))
          /\ SameContent(caFrame.q, InjectedQ(caFrame.args))
    /\ BlendCase(2) =>
          /\ SameContent(ca.q, FreshQ(ca, caFrame.args))
          /\ SameContent(caFrame.q, FreshQ(ca, caFrame.args))

\* C2 amended: with q_injected and injection_config given, gamma = 0 makes the Q
\* used and stored the fresh projection to_q(x) (head-split), and gamma = 1
\* makes it the injected Q replicated over the batch.
C2_GammaEnds ==
    /\ BlendCase(0) =>
          /\ SameContent(ca.q, FreshQ(ca, caFrame.args))
          /\ SameContent(caFrame.q, FreshQ(ca, caFrame.args))
    /\ BlendCase(2) =>
          /\ SameContent(ca.q, InjectedQ(caFrame.args))
          /\ SameContent(caFrame.q, InjectedQ(caFrame.args))

\* A call over a batch of 2 with gamma = 1 has returned, its Q the injected Q
\* in two copies and not the fresh projection.
C2_Witness ==
    /\ BlendCase(2)
    /\ caFrame.pc = "returned"
    /\ caFrame.args.x.shape[1] = 2
    /\ ca.q.shape[1] = 2 * caFrame.args.q_injected.shape[1]
    /\ ca.q.val = caFrame.args.q_injected.val
    /\ ca.q.val # FreshQ(ca, caFrame.args).val

TFactor(a) == [f |-> "attn_matrix_scale", v |-> a.injection_config.T]

ScaleFactor(self) == [f |-> "scale", v |-> self.dim_head]

SimilarityDone ==
    /\ caFrame.pc \in {"returned", "failed"}
    /\ exists(ca.attn)
    /\ exists(caFrame.args.injection_config)

\* C3 as claimed: whenever any of q_injected, k_injected, v_injected is supplied
\* the similarity is multiplied by T and then by dim_head^-0.5; with none
\* supplied it is multiplied by dim_head^-0.5 alone.
C3_AsClaimed ==
    SimilarityDone =>
        LET a == caFrame.args
        IN  ca.attn.sim.muls =
              IF exists(a.q_injected) \/ exists(a.k_injected) \/ exists(a.v_injected)
              THEN <<TFactor(a), ScaleFactor(ca)>>
              ELSE <<ScaleFactor(ca)>>

\* C3 amended: with injection_config given, the similarity is multiplied by T,
\* before the dim_head^-0.5 scaling, exactly when q_injected or k_injected is
\* supplied; with neither (v_injected alone included) it is multiplied by
\* dim_head^-0.5 alone.
C3_ScaledByT ==
    SimilarityDone =>
        LET a == caFrame.args
        IN  ca.attn.sim.muls =
              IF exists(a.q_injected) \/ exists(a.k_injected)
              THEN <<TFactor(a), ScaleFactor(ca)>>
              ELSE <<ScaleFactor(ca)>>

\* A call with v_injected alone and T = 3 has returned: T was not applied.
C3_Witness ==
    /\ SimilarityDone
    /\ caFrame.pc = "returned"
    /\ ~exists(caFrame.args.q_injected)
    /\ ~exists(caFrame.args.k_injected)
    /\ exists(caFrame.args.v_injected)
    /\ caFrame.args.injection_config.T = 3
    /\ ca.attn.sim.muls = <<ScaleFactor(ca)>>

\* C7: after a successful return the retained q, k, v, attn are those of this
\* call: the ones its arguments give, the ones the similarity and the output
\* were computed from; while a call runs attn is None, and after a failed call
\* attn is None or this call's own matrix.
C7_LastCallState ==
    LET a == caFrame.args
        q == ProjectQ(ca, a)
        k == ProjectK(ca, a)
        v == ProjectV(ca, a)
        p == env.attn_precision
    IN  /\ caFrame.pc = "running" => ca.attn = None
        /\ caFrame.pc = "failed" =>
              \/ ca.attn = None
              \/ /\ ca.attn = caFrame.attn
                 /\ ca.attn = Softmax(Similarity(ca, a, Upcast(p, q), Upcast(p, k)))
        /\ caFrame.pc = "returned" =>
              /\ ca.q = q /\ ca.k = k /\ ca.v = v
              /\ SameContent(ca.q, caFrame.q)
              /\ SameContent(ca.k, caFrame.k)
              /\ ca.v = caFrame.v
              /\ ca.attn = caFrame.attn
              /\ ca.attn.sim.qk = <<ca.q.val, ca.k.val>>
              /\ ca.attn = Softmax(Similarity(ca, a, Upcast(p, q), Upcast(p, k)))
              /\ caFrame.out = Output(ca, ca.attn, ca.v)
              /\ ~Failed(caFrame.out)

\* A call failed before it stored anything: attn is None although q, k, v still
\* hold what an earlier, successful call left.
C7_Witness ==
    /\ caFrame.pc = "failed"
    /\ Failed(ProjectQ(ca, caFrame.args))
    /\ ca.attn = None
    /\ exists(ca.q) /\ exists(ca.k) /\ exists(ca.v)

\* ------------------------------------------ MemoryEfficientCrossAttention
MemoryEfficientInit(query_dim, context_dim, heads, dim_head) ==
    [heads |-> heads, dim_head |-> dim_head,
     to_q |-> Linear(query_dim, dim_head * heads, 2, 0),
     to_k |-> Linear(DefaultDim(context_dim, query_dim), dim_head * heads, 4, 0),
     to_v |-> Linear(DefaultDim(context_dim, query_dim), dim_head * heads, 6, 0),
     to_out |-> Linear(dim_head * heads, query_dim, 2, 2)]

\* t.unsqueeze(3).reshape(b, t.shape[1], heads, dim_head).permute(0, 2, 1, 3)
\*  .reshape(b * heads, t.shape[1], dim_head): b is the batch of q
ReshapeHeads(t, b, heads, dim_head) ==
    IF Failed(t) THEN t
    ELSE IF t.shape[1] * t.shape[3] # b * heads * dim_head THEN Raise("RuntimeError")
    ELSE [t EXCEPT !.shape = <<b * heads, t.shape[2], dim_head>>]

\* xformers.ops.memory_efficient_attention(q, k, v, attn_bias=None, op=...)
FusedAttention(q, k, v) ==
    IF Failed(q) THEN q
    ELSE IF Failed(k) THEN k
    ELSE IF Failed(v) THEN v
    ELSE IF ~(/\ q.shape[1] = k.shape[1] /\ k.shape[1] = v.shape[1]
              /\ q.shape[3] = k.shape[3] /\ k.shape[2] = v.shape[2])
         THEN Raise("ValueError")
    ELSE Tensor(<<q.shape[1], q.shape[2], v.shape[3]>>, v.val, v.src,
                Promote(q.dtype, v.dtype), q.pos)

\* the check left out: the mask is dropped in silence
MaskCheckDropped(mask, out) == out

\* if exists(mask): raise NotImplementedError
MaskCheck(mask, out) ==
    IF Failed(out) THEN out
    ELSE IF exists(mask) THEN Raise("NotImplementedError")
    ELSE out

\* out.unsqueeze(0).reshape(b, heads, out.shape[1], dim_head).permute(0, 2, 1, 3)
\*  .reshape(b, out.shape[1], heads * dim_head)
UnreshapeHeads(out, b, heads, dim_head) ==
    IF Failed(out) THEN out
    ELSE IF out.shape[1] * out.shape[3] # b * heads * dim_head THEN Raise("RuntimeError")
    ELSE [out EXCEPT !.shape = <<b, out.shape[2], heads * dim_head>>]

\* lines 344-365: b is the batch of q
MemoryEfficientAttend(self, b, q, k, v, mask) ==
    IF Failed(q) THEN q
    ELSE IF Failed(k) THEN k
    ELSE IF Failed(v) THEN v
    ELSE LinearApply(self.to_out,
           UnreshapeHeads(
             MaskCheck(mask,
               FusedAttention(ReshapeHeads(q, b, self.heads, self.dim_head),
                              ReshapeHeads(k, b, self.heads, self.dim_head),
                              ReshapeHeads(v, b, self.heads, self.dim_head))),
             b, self.heads, self.dim_head))

\* MemoryEfficientCrossAttention.forward(x, context, mask): the tensor returned
\* or the exception raised.
MemoryEfficientForward(self, x, context, mask) ==
    MemoryEfficientAttend(self, x.shape[1],
                          LinearApply(self.to_q, x),
                          LinearApply(self.to_k, default(context, x)),
                          LinearApply(self.to_v, default(context, x)),
                          mask)

\* ------------------------------ one MemoryEfficientCrossAttention instance
MEAIdle == [pc |-> "idle", x |-> None, context |-> None, mask |-> None, out |-> None]

\* x: [b, n tokens, query_dim 8]
MEAXIn(b, n) == Tensor(<<b, n, 8>>, 2 * n, "x", "fp16", <<>>)

\* context: [b, m tokens, c channels]
MEAContextIn(b, m, c) == Tensor(<<b, m, c>>, 8, "context", "fp16", <<>>)

\* mask: [b, m] booleans, the key indices in keep kept
MEAMaskIn(b, m, keep) == [none |-> FALSE, err |-> "", shape |-> <<b, m>>, keep |-> keep]

Tokens == 1..3

InitMEA ==
    /\ env \in [attn_precision : {"fp32"}, xformers : {TRUE}]
    /\ \E context_dim \in {0, 6}, heads \in {1, 2} :
          mea = MemoryEfficientInit(8, context_dim, heads, 4)
    /\ meaFrame = MEAIdle
    /\ ca = None
    /\ caFrame = None
    /\ st = None
    /\ stFrame = None

MEAFrame(x, context, mask, out) ==
    [pc |-> IF Failed(out) THEN "failed" ELSE "returned",
     x |-> x, context |-> context, mask |-> mask, out |-> out]

\* forward(x, context, mask), called with tensors of the widths the instance was
\* built for: lines 338-365
MEAForward ==
    /\ meaFrame.pc = "idle"
    /\ \E b \in Batches, n \in Tokens, m \in Tokens, withContext \in BOOLEAN,
          maskKeep \in {{}, {1}, {1, 2}} :
        \E x \in {MEAXIn(b, n)},
           context \in {IF withContext THEN MEAContextIn(b, m, mea.to_k.in_features)
                        ELSE None} :
          \E mask \in {IF maskKeep = {} THEN None
                       ELSE MEAMaskIn(b, default(context, x).shape[2], maskKeep)} :
            /\ default(context, x).shape[3] = mea.to_k.in_features
            /\ meaFrame' = MEAFrame(x, context, mask,
                                    MemoryEfficientForward(mea, x, context, mask))
    /\ UNCHANGED <<env, ca, caFrame, mea, st, stFrame>>

\* the caller has the result or the exception
MEALeave ==
    /\ meaFrame.pc \in {"returned", "failed"}
    /\ meaFrame' = MEAIdle
    /\ UNCHANGED <<env, ca, caFrame, mea, st, stFrame>>

NextMEA == MEAForward \/ MEALeave

SpecMEA == InitMEA /\ [][NextMEA]_vars

LayerNormApply(dim, t) ==
    IF Failed(t) THEN t
    ELSE IF t.shape[Len(t.shape)] # dim THEN Raise("RuntimeError")
    ELSE t

\* FeedForward(dim, glu=True).forward: Linear(dim, 8*dim), the gate, Linear(4*dim, dim)
FeedForwardApply(dim, t) ==
    IF Failed(t) THEN t
    ELSE IF t.shape[Len(t.shape)] # dim THEN Raise("RuntimeError")
    ELSE [t EXCEPT !.val = t.val * 2]

\* x_ + x, token by token
Add(y, x) ==
    IF Failed(y) THEN y
    ELSE IF Failed(x) THEN x
    ELSE IF ~Broadcastable(y.shape, x.shape) THEN Raise("RuntimeError")
    ELSE [x EXCEPT !.shape = BroadcastShape(y.shape, x.shape),
                   !.val = y.val + x.val,
                   !.dtype = Promote(y.dtype, x.dtype),
                   !.pos = IF y.pos = x.pos THEN x.pos ELSE <<>>]

\* ATTENTION_MODES[attn_mode], attn_mode chosen by XFORMERS_IS_AVAILBLE
AttnMode(xformers) == IF xformers THEN "softmax-xformers" ELSE "softmax"

\* The parameters each backend's forward takes besides x.
ForwardParams(attn_mode) ==
    IF attn_mode = "softmax-xformers" THEN {"context", "mask"}
    ELSE {"context", "mask", "q_injected", "k_injected", "v_injected",
          "injection_config"}

\* attn_cls(query_dim=..., context_dim=..., heads=..., dim_head=...)
AttnCls(xformers, query_dim, context_dim, heads, dim_head) ==
    IF xformers THEN MemoryEfficientInit(query_dim, context_dim, heads, dim_head)
    ELSE CrossAttentionInit(query_dim, context_dim, heads, dim_head)

\* BasicTransformerBlock.__init__; context_dim 0 stands for None
BasicTransformerBlockInit(dim, n_heads, d_head, context_dim, disable_self_attn, xformers) ==
    [dim |-> dim, attn_mode |-> AttnMode(xformers),
     disable_self_attn |-> disable_self_attn,
     attn1 |-> AttnCls(xformers, dim, IF disable_self_attn THEN context_dim ELSE 0,
                       n_heads, d_head),
     attn2 |-> AttnCls(xformers, dim, context_dim, n_heads, d_head)]

\* What a sublayer call leaves: the keywords and arguments it was made with, the
\* callee's locals and the tensor returned or the exception raised.
CallRecord(kwargs, a, r) ==
    [kwargs |-> kwargs, args |-> a, q |-> r.q, k |-> r.k, v |-> r.v,
     attn |-> r.attn, out |-> r.out]

NoLocals(out) == Locals(None, None, None, None, None, out)

\* module(x, **kwargs): the keywords must be parameters of the backend's forward;
\* then the backend's forward runs.
CallAttention(attn_mode, module, kwargs, a, precision) ==
    IF Failed(a.x) THEN CallRecord(kwargs, a, NoLocals(a.x))
    ELSE IF ~(kwargs \subseteq ForwardParams(attn_mode))
    THEN CallRecord(kwargs, a, NoLocals(Raise("TypeError")))
    ELSE IF attn_mode = "softmax-xformers"
    THEN CallRecord(kwargs, a,
                    NoLocals(MemoryEfficientForward(module, a.x, a.context, a.mask)))
    ELSE CallRecord(kwargs, a, CrossAttentionForward(module, a, precision))

NoCall == CallRecord({}, None, NoLocals(None))

\* the self-attention call with v_injected left out
Attn1ArgsNoV(block, x, inj) ==
    CallArgs(LayerNormApply(block.dim, x), None, None, inj.q, inj.k, None, inj.config)

\* self.attn1(self.norm1(x), q_injected=..., k_injected=..., v_injected=...,
\*            injection_config=...)
Attn1Args(block, x, inj) ==
    CallArgs(LayerNormApply(block.dim, x), None, None, inj.q, inj.k, inj.v, inj.config)

Attn1Keywords == {"q_injected", "k_injected", "v_injected", "injection_config"}

\* self.attn2(self.norm2(x), context=context)
Attn2Args(block, x, context) ==
    CallArgs(LayerNormApply(block.dim, x), context, None, None, None, None, None)

Attn2Keywords == {"context"}

\* ---------------------------------------------------- SpatialTransformer
\* Normalize(in_channels): GroupNorm of 32 groups, built only for a multiple of 32
GroupNormApply(num_channels, t) ==
    IF Failed(t) THEN t
    ELSE IF t.shape[2] # num_channels THEN Raise("RuntimeError")
    ELSE t

\* nn.Conv2d(cin, cout, kernel_size=1): the per-pixel linear map on a grid
ConvApply(m, t) ==
    IF Failed(t) THEN t
    ELSE IF t.shape[2] # m.in_features THEN Raise("RuntimeError")
    ELSE [t EXCEPT !.shape = [t.shape EXCEPT ![2] = m.out_features],
                   !.val = t.val * m.weight + m.bias]

\* zero_module(module): every parameter set to zero
ZeroModule(module) == [module EXCEPT !.weight = 0, !.bias = 0]

\* context_dim as given to __init__: None, one width, or a list of widths
ContextDimNone == [kind |-> "none", dims |-> <<>>]

ContextDimInt(c) == [kind |-> "int", dims |-> <<c>>]

ContextDimList(l) == [kind |-> "list", dims |-> l]

\* SpatialTransformer.__init__: the instance, or the exception construction raises
SpatialTransformerInit(in_channels, n_heads, d_head, depth, context_dim, disable_self_attn, use_linear, xformers) ==
    IF in_channels % 32 # 0 THEN Raise("ValueError")
    ELSE IF context_dim.kind = "none" THEN Raise("TypeError")
    ELSE IF Len(context_dim.dims) < depth THEN Raise("IndexError")
    ELSE [none |-> FALSE, err |-> "",
          in_channels |-> in_channels, inner_dim |-> n_heads * d_head,
          n_heads |-> n_heads, d_head |-> d_head,
          use_linear |-> use_linear,
          proj_in |-> Linear(in_channels, n_heads * d_head, 2, 0),
          transformer_blocks |->
              [d \in 1..depth |->
                  BasicTransformerBlockInit(n_heads * d_head, n_heads, d_head,
                                            context_dim.dims[d],
                                            disable_self_attn, xformers)],
          proj_out |-> IF ~use_linear
                       THEN ZeroModule(Linear(n_heads * d_head, in_channels, 2, 2))
                       ELSE ZeroModule(Linear(in_channels, n_heads * d_head, 2, 2))]

Pixels(h, w) == (0..(h - 1)) \X (0..(w - 1))

\* the (h w) axis written column first
ColumnMajorIndex(r, c, h, w) == c * h + r

\* rearrange(x, 'b c h w -> b (h w) c'): the token index pixel (r, c) is written to
FlattenIndex(r, c, h, w) == r * w + c

\* rearrange(x, 'b (h w) c -> b c h w', h=h, w=w): the token index pixel (r, c)
\* is read from
UnflattenIndex(r, c, h, w) == r * w + c

FlattenTo(t, h, w) ==
    [t EXCEPT !.shape = <<t.shape[1], h * w, t.shape[2]>>,
              !.pos = [n \in 1..(h * w) |->
                         t.pos[CHOOSE p \in Pixels(h, w) :
                                 FlattenIndex(p[1], p[2], h, w) = n - 1]]]

Flatten(t) == IF Failed(t) THEN t ELSE FlattenTo(t, t.shape[3], t.shape[4])

Unflatten(t, h, w) ==
    IF Failed(t) THEN t
    ELSE IF t.shape[2] # h * w THEN Raise("EinopsError")
    ELSE [t EXCEPT !.shape = <<t.shape[1], t.shape[3], h, w>>,
                   !.pos = [p \in Pixels(h, w) |->
                              t.pos[UnflattenIndex(p[1], p[2], h, w) + 1]]]

\* lines 503-512: the context wrapped into a list, norm, proj_in and the flattening
ContextList(context) ==
    IF context.kind = "list" THEN context.items ELSE <<context.item>>

TokensIn(self, x) ==
    IF ~self.use_linear
    THEN Flatten(ConvApply(self.proj_in, GroupNormApply(self.in_channels, x)))
    ELSE LinearApply(self.proj_in, Flatten(GroupNormApply(self.in_channels, x)))

\* lines 521-525: proj_out and the reshaping to a grid, in the order the mode sets
BranchOut(self, x, h, w) ==
    IF self.use_linear THEN Unflatten(LinearApply(self.proj_out, x), h, w)
    ELSE ConvApply(self.proj_out, Unflatten(x, h, w))

\* ------------------------------------------ one SpatialTransformer instance
\* The frame of a forward call: its arguments, its locals, and per block the
\* context the block was given and the two attention calls it made.
STIdle == [pc |-> "idle", i |-> 0, x |-> None, x_in |-> None,
           given |-> [kind |-> "none", item |-> None, items |-> <<>>],
           context |-> <<>>,
           inj |-> [q |-> None, k |-> None, v |-> None, config |-> None],
           log |-> <<>>, branch |-> None, out |-> None]

Grids == {<<1, 2>>, <<2, 1>>, <<2, 2>>}

\* x: [1, in_channels, h, w]; every pixel holds itself
GridIn(in_channels, h, w) ==
    Tensor(<<1, in_channels, h, w>>, 2, "x", "fp16", [p \in Pixels(h, w) |-> p])

\* a context of 3 tokens: [1, 3, context_dim]
STContextIn(context_dim, val) ==
    Tensor(<<1, 3, context_dim>>, val, "context", "fp16", <<>>)

ContextArgs(context_dim) ==
    {[kind |-> "none", item |-> None, items |-> <<>>],
     [kind |-> "tensor", item |-> STContextIn(context_dim, 8), items |-> <<>>]}
    \cup {[kind |-> "list", item |-> None,
           items |-> [d \in 1..n |-> STContextIn(context_dim, 8 + 2 * d)]] :
          n \in 1..MaxDepth}

\* q, k or v of another pass over the same grid: [n_heads, h*w, d_head]
STInjectedIn(self, h, w, val) ==
    Tensor(<<self.n_heads, h * w, self.d_head>>, val, "injected", "fp16", <<>>)

InitST ==
    /\ env \in [attn_precision : {"fp32"}, xformers : BOOLEAN]
    /\ \E in_channels \in {32, 64}, n_heads \in {1, 2}, depth \in 1..MaxDepth,
          context_dim \in {ContextDimNone, ContextDimInt(64),
                           ContextDimList([d \in 1..MaxDepth |-> 64])},
          disable_self_attn \in BOOLEAN, use_linear \in BOOLEAN :
        /\ st = SpatialTransformerInit(in_channels, n_heads, 32, depth, context_dim,
                                       disable_self_attn, use_linear, env.xformers)
        /\ ~Failed(st)
    /\ stFrame = STIdle
    /\ ca = None
    /\ caFrame = None
    /\ mea = None
    /\ meaFrame = None

Depth == Len(st.transformer_blocks)

\* The frame as forward is entered with grid x_in, the context as given and the
\* injection arguments.
Entry(x_in, given, q, k, v, injection_config) ==
    [STIdle EXCEPT !.x_in = x_in, !.given = given, !.context = ContextList(given),
                   !.inj = [q |-> q, k |-> k, v |-> v, config |-> injection_config]]

\* A step of forward that computed x: on to pc, or the exception x is.
Step(f, pc, x) ==
    IF Failed(x) THEN [f EXCEPT !.pc = "failed", !.out = x]
    ELSE [f EXCEPT !.pc = pc, !.x = x]

\* forward is entered: lines 503-512
STForward ==
    /\ stFrame.pc = "idle"
    /\ \E g \in Grids,
          given \in ContextArgs(st.transformer_blocks[1].attn2.to_k.in_features),
          qi \in BOOLEAN, ki \in BOOLEAN, vi \in BOOLEAN,
          injection_config \in {None, [none |-> FALSE, T |-> 3, gamma2 |-> 1]} :
        \E x_in \in {GridIn(st.in_channels, g[1], g[2])} :
          stFrame' =
            Step([Entry(x_in, given,
                        IF qi THEN STInjectedIn(st, g[1], g[2], 6) ELSE None,
                        IF ki THEN STInjectedIn(st, g[1], g[2], 10) ELSE None,
                        IF vi THEN STInjectedIn(st, g[1], g[2], 14) ELSE None,
                        injection_config) EXCEPT !.i = 1],
                 "attn1", TokensIn(st, x_in))
    /\ UNCHANGED <<env, ca, caFrame, mea, meaFrame, st>>

\* x = x_ + x after the self-attention call of block i, which is logged with the
\* context the block was given
AfterAttn1(f, call) ==
    Step([f EXCEPT !.log = Append(f.log, [context |-> f.context[f.i], a1 |-> call,
                                           a2 |-> NoCall])],
         "attn2", Add(call.out, f.x))

\* block(x, context=context[i], ...) and in it the self-attention: lines 513-520
\* and 413-418
Attn1Step(self, f, precision) ==
    IF f.i > Len(f.context) THEN [f EXCEPT !.pc = "failed", !.out = Raise("IndexError")]
    ELSE AfterAttn1(f, CallAttention(self.transformer_blocks[f.i].attn_mode,
                                     self.transformer_blocks[f.i].attn1,
                                     Attn1Keywords,
                                     Attn1Args(self.transformer_blocks[f.i], f.x, f.inj),
                                     precision))

STAttn1 ==
    /\ stFrame.pc = "attn1"
    /\ stFrame' = Attn1Step(st, stFrame, env.attn_precision)
    /\ UNCHANGED <<env, ca, caFrame, mea, meaFrame, st>>

AfterAttn2(f, call) ==
    Step([f EXCEPT !.log[f.i].a2 = call], "ff", Add(call.out, f.x))

\* the cross-attention of block i: line 419
Attn2Step(self, f, precision) ==
    AfterAttn2(f, CallAttention(self.transformer_blocks[f.i].attn_mode,
                                self.transformer_blocks[f.i].attn2,
                                Attn2Keywords,
                                Attn2Args(self.transformer_blocks[f.i], f.x,
                                          f.log[f.i].context),
                                precision))

STAttn2 ==
    /\ stFrame.pc = "attn2"
    /\ stFrame' = Attn2Step(st, stFrame, env.attn_precision)
    /\ UNCHANGED <<env, ca, caFrame, mea, meaFrame, st>>

\* the feed-forward of block i and the block's return: lines 420-421; then the
\* next block, or proj_out after the last
FeedForwardStep(self, f) ==
    Step([f EXCEPT !.i = f.i + 1],
         IF f.i = Len(self.transformer_blocks) THEN "proj_out" ELSE "attn1",
         Add(FeedForwardApply(self.transformer_blocks[f.i].dim,
                              LayerNormApply(self.transformer_blocks[f.i].dim, f.x)),
             f.x))

STFeedForward ==
    /\ stFrame.pc = "ff"
    /\ stFrame' = FeedForwardStep(st, stFrame)
    /\ UNCHANGED <<env, ca, caFrame, mea, meaFrame, st>>

\* return x + x_in: line 526
Return(f, branch, out) ==
    [f EXCEPT !.branch = branch, !.out = out,
              !.pc = IF Failed(out) THEN "failed" ELSE "returned"]

Residual(f, branch) == Return(f, branch, Add(branch, f.x_in))

\* proj_out, the reshaping to a grid and the residual: lines 521-526
ProjOutStep(self, f) ==
    Residual(f, BranchOut(self, f.x, f.x_in.shape[3], f.x_in.shape[4]))

STProjOut ==
    /\ stFrame.pc = "proj_out"
    /\ stFrame' = ProjOutStep(st, stFrame)
    /\ UNCHANGED <<env, ca, caFrame, mea, meaFrame, st>>

\* the caller has the result or the exception
STLeave ==
    /\ stFrame.pc \in {"returned", "failed"}
    /\ stFrame' = STIdle
    /\ UNCHANGED <<env, ca, caFrame, mea, meaFrame, st>>

NextST == STForward \/ STAttn1 \/ STAttn2 \/ STFeedForward \/ STProjOut \/ STLeave

SpecST == InitST /\ [][NextST]_vars

NoInjection ==
    /\ ~exists(stFrame.inj.q) /\ ~exists(stFrame.inj.k) /\ ~exists(stFrame.inj.v)
    /\ ~exists(stFrame.inj.config)

\* The context is a list with an entry for every block.
ContextPerBlock ==
    stFrame.given.kind = "list" /\ Len(stFrame.given.items) >= Depth

\* No block was built with disable_self_attn.
PlainSelfAttention == \A d \in 1..Depth : ~st.transformer_blocks[d].disable_self_attn

\* C1 as claimed: a fresh SpatialTransformer, in either projection mode, completes
\* forward(x, context) and returns exactly x.  Stated for the reference backend,
\* a context entry per block and no injection, where nothing but the transformer's
\* own projections can fail.
C1_AsClaimed ==
    (/\ stFrame.pc \in {"returned", "failed"}
     /\ ~env.xformers /\ ContextPerBlock /\ NoInjection /\ PlainSelfAttention) =>
        /\ stFrame.pc = "returned"
        /\ stFrame.out.shape = stFrame.x_in.shape
        /\ stFrame.out.val = stFrame.x_in.val
        /\ stFrame.out.pos = stFrame.x_in.pos

\* C5 as claimed: a context that is no list (one tensor, or None) is given to
\* every block and the call completes.  Stated for the reference backend, the
\* convolutional projections, no injection, and blocks whose cross-attention
\* accepts what it is given (the tensor, or x itself when the context is None).
C5_AsClaimed ==
    (/\ stFrame.pc # "idle"
     /\ ~env.xformers /\ ~st.use_linear /\ NoInjection /\ PlainSelfAttention
     /\ \/ stFrame.given.kind = "tensor"
        \/ /\ stFrame.given.kind = "none"
           /\ st.transformer_blocks[1].attn2.to_k.in_features = st.inner_dim) =>
        /\ stFrame.pc # "failed"
        /\ \A d \in 1..Len(stFrame.log) : stFrame.log[d].context = stFrame.given.item
        /\ stFrame.pc = "returned" => Len(stFrame.log) = Depth

\* The tensor a sublayer call took its K and V from: "context", "x" or "injected".
KVFrom(call) == <<call.k.src, call.v.src>>

\* C9 as claimed: attn1 takes K and V from the external context exactly when
\* disable_self_attn is set, and from its own normalized input otherwise; attn2
\* takes them from the context, or from its own input when the context is None.
\* Stated for calls with a context and without injected K or V.
C9_AsClaimed ==
    \A d \in 1..Len(stFrame.log) :
        LET e == stFrame.log[d]
        IN  /\ (/\ exists(e.a1.k) /\ exists(e.context)
                /\ ~exists(stFrame.inj.k) /\ ~exists(stFrame.inj.v)) =>
                  KVFrom(e.a1) = IF st.transformer_blocks[d].disable_self_attn
                                 THEN <<"context", "context">>
                                 ELSE <<"x", "x">>
            /\ exists(e.a2.k) =>
                  KVFrom(e.a2) = IF exists(e.context) THEN <<"context", "context">>
                                 ELSE <<"x", "x">>

\* C10 as claimed: with either backend, a block called without injection
\* arguments and without a mask runs its three sublayers and returns.  Stated for
\* the convolutional projections and a context entry per block, where nothing
\* outside the blocks can fail.
C10_AsClaimed ==
    (/\ stFrame.pc # "idle"
     /\ ~st.use_linear /\ ContextPerBlock /\ NoInjection /\ PlainSelfAttention) =>
        /\ stFrame.pc # "failed"
        /\ stFrame.pc = "returned" => Len(stFrame.log) = Depth

\* C6: every self-attention call a forward makes is given the q, k, v and
\* injection_config forward was given, unchanged; every cross-attention call is
\* made with the context alone, so its Q, K, V are fresh projections and its
\* similarity is scaled by dim_head^-0.5 only; and a forward that returns has
\* called both in every block.
C6_Routing ==
    /\ \A d \in 1..Len(stFrame.log) :
         LET e == stFrame.log[d]
             attn2 == st.transformer_blocks[d].attn2
         IN  /\ e.a1.kwargs = Attn1Keywords
             /\ e.a1.args.q_injected = stFrame.inj.q
             /\ e.a1.args.k_injected = stFrame.inj.k
             /\ e.a1.args.v_injected = stFrame.inj.v
             /\ e.a1.args.injection_config = stFrame.inj.config
             /\ e.a2 # NoCall =>
                  /\ e.a2.kwargs = {"context"}
                  /\ ~exists(e.a2.args.q_injected)
                  /\ ~exists(e.a2.args.k_injected)
                  /\ ~exists(e.a2.args.v_injected)
                  /\ ~exists(e.a2.args.injection_config)
             /\ exists(e.a2.q) =>
                  /\ SameContent(e.a2.q, FreshQ(attn2, e.a2.args))
                  /\ e.a2.q.src = "x"
                  /\ e.a2.k.src # "injected"
                  /\ e.a2.v.src # "injected"
             /\ exists(e.a2.attn) => e.a2.attn.sim.muls = <<ScaleFactor(attn2)>>
    /\ stFrame.pc = "returned" =>
         /\ Len(stFrame.log) = Depth
         /\ \A d \in 1..Depth : stFrame.log[d].a2 # NoCall

\* A forward over two blocks with q, k, v and injection_config given has
\* returned: the second block's self-attention blended Q and scaled by T, its
\* cross-attention did neither.
C6_Witness ==
    /\ stFrame.pc = "returned"
    /\ Len(stFrame.log) = 2
    /\ exists(stFrame.inj.q) /\ exists(stFrame.inj.k) /\ exists(stFrame.inj.v)
    /\ exists(stFrame.inj.config)
    /\ stFrame.log[2].a1.q.src = "blend"
    /\ stFrame.log[2].a1.k.src = "injected"
    /\ stFrame.log[2].a1.attn.sim.muls[1] = [f |-> "attn_matrix_scale", v |-> 3]
    /\ stFrame.log[2].a2.attn.sim.muls = <<[f |-> "scale", v |-> 32]>>

\* C8: while the blocks run, token h*W+w holds what derives from input pixel
\* (h, w); the grid rebuilt from the tokens holds at (h, w) what derives from
\* input pixel (h, w), and that is what is added to the residual there.
C8_RoundTrip ==
    LET h == stFrame.x_in.shape[3]
        w == stFrame.x_in.shape[4]
    IN  /\ stFrame.pc \in {"attn1", "attn2", "ff", "proj_out"} =>
              \A p \in Pixels(h, w) : stFrame.x.pos[p[1] * w + p[2] + 1] = p
        /\ (stFrame.pc \in {"returned", "failed"} /\ exists(stFrame.branch)
            /\ ~Failed(stFrame.branch)) =>
              \A p \in Pixels(h, w) :
                  /\ stFrame.branch.pos[p] = p
                  /\ stFrame.x_in.pos[p] = p
        /\ stFrame.pc = "returned" =>
              \A p \in Pixels(h, w) : stFrame.out.pos[p] = p

\* A forward over a 2 x 2 grid has returned: token 2 (the third) came from pixel
\* (1, 0) and went back to it.
C8_Witness ==
    /\ stFrame.pc = "returned"
    /\ stFrame.x_in.shape[3] = 2 /\ stFrame.x_in.shape[4] = 2
    /\ stFrame.x.pos[3] = <<1, 0>>
    /\ stFrame.branch.pos[<<1, 0>>] = <<1, 0>>

====
